---- MODULE Spec2Model ----
(***************************************************************************)
(* Model of the useForm hook (validation-and-state engine).                *)
(*                                                                         *)
(* A form instance holds the refs values/result/metadata, the memoised     *)
(* keys/initResult/initMetadata, the constructor arguments initValues/fns  *)
(* and the rxjs Subject `changed`.  The operations set, change, confirm,   *)
(* submit, reset and on are the actions.  Subject.next delivers            *)
(* synchronously to a copy of the observer list, so a subscriber's handler *)
(* runs in the middle of set and may call the form's operations again; the *)
(* model keeps the pending deliveries of the nested set calls in `stack`.  *)
(*                                                                         *)
(* Conventions: a JS value is the record [t, s, n] (typeof, string         *)
(* payload, number payload); a JS object is a function whose DOMAIN is its *)
(* own keys; progress is kept in hundredths (5000 is 50.00).               *)
(***************************************************************************)
EXTENDS Integers, Sequences, FiniteSets, TLC

\* ---------------------------------------------------------------- bounds
\* calls of set, change, confirm, submit, reset and on in one explored run
\* (a change that its guards reject is not counted: it changes nothing)
MaxCalls == 4

\* ------------------------------------------------------------- JS values
Str(s) == [t |-> "string", s |-> s, n |-> 0]
Num(n) == [t |-> "number", s |-> "", n |-> n]
TypeOf(v) == v.t

\* e.target.value of an input element is always a string
RawValues == {Str("x")}

\* window.location.href of the hosting page
Hrefs == {"http://localhost:3000/", "https://example.com/"}
LocalhostHrefs == {"http://localhost:3000/"}

Range(f) == {f[i] : i \in DOMAIN f}

\* ------------------------------------------- validation rules (caller's)
\* A rule is (value, values) -> message, "" meaning valid.
Fn(name, value, vals) ==
  CASE name = "required" ->
         IF TypeOf(value) = "string" /\ value.s = "" THEN "required" ELSE ""
    [] name = "containsAt" ->
         IF TypeOf(value) = "string" /\ value.s = "a@b.com"
         THEN "" ELSE "must contain @"
    [] name = "adult" ->
         IF TypeOf(value) = "number" /\ value.n >= 18
         THEN "" ELSE "must be >= 18"
    [] name = "sameAsEmail" ->
         IF value = vals["email"] THEN "" ELSE "must repeat email"

\* The constructor arguments the model explores: initValues (with the
\* insertion order of its keys) and fns, and with them the values the
\* model passes to set for each key (of the key's declared type).
Configs ==
  { [ order |-> <<"email", "age">>,
      initValues |-> [k \in {"email", "age"} |->
                        IF k = "email" THEN Str("") ELSE Num(0)],
      fns |-> [k \in {"email", "age"} |->
                 IF k = "email" THEN <<"containsAt">> ELSE <<"adult">>],
      inputs |-> [k \in {"email", "age"} |->
                    IF k = "email" THEN {Str(""), Str("a@b.com")}
                    ELSE {Num(0), Num(20)}] ],
    [ order |-> <<"email", "repeat", "nick">>,
      initValues |-> [k \in {"email", "repeat", "nick"} |-> Str("")],
      fns |-> [k \in {"email", "repeat"} |->
                 IF k = "email" THEN <<"required", "containsAt">>
                 ELSE <<"sameAsEmail">>],
      inputs |-> [k \in {"email", "repeat", "nick"} |->
                    IF k = "email" THEN {Str(""), Str("x"), Str("a@b.com")}
                    ELSE IF k = "repeat" THEN {Str("a@b.com")}
                    ELSE {Str("x")}] ] }

\* names an input element may carry besides the form's keys
ForeignNames == {"", "phone"}

\* ------------------------------------------------------------- validate
SafeFns(fns, key) == IF key \in DOMAIN fns THEN fns[key] ELSE <<>>

\* mutant of RuleLoop: only the first rule of the list is evaluated
RuleLoopFirstOnly(safeFns, j, value, vals) ==
  IF j > Len(safeFns) THEN "" ELSE Fn(safeFns[j], value, vals)

RECURSIVE RuleLoopNoBreak(_, _, _, _)
\* mutant of RuleLoop: without the break, the last failing rule's message
\* is the one that stays in errors[key]
RuleLoopNoBreak(safeFns, j, value, vals) ==
  IF j > Len(safeFns) THEN ""
  ELSE LET error == Fn(safeFns[j], value, vals)
           rest == RuleLoopNoBreak(safeFns, j + 1, value, vals)
       IN IF rest # "" THEN rest ELSE error

RECURSIVE RuleLoop(_, _, _, _)
\* inner loop of validate: the first non-empty message, "" if none
RuleLoop(safeFns, j, value, vals) ==
  IF j > Len(safeFns) THEN ""
  ELSE LET error == Fn(safeFns[j], value, vals)
       IN IF error # "" THEN error
          ELSE RuleLoop(safeFns, j + 1, value, vals)

RECURSIVE RuleCalls(_, _, _, _)
\* inner loop of validate: the indices of the rules it calls, in order
RuleCalls(safeFns, j, value, vals) ==
  IF j > Len(safeFns) THEN <<>>
  ELSE LET error == Fn(safeFns[j], value, vals)
       IN IF error # "" THEN <<j>>
          ELSE <<j>> \o RuleCalls(safeFns, j + 1, value, vals)

RECURSIVE KeyLoopCountsRules(_, _, _, _, _)
\* mutant of KeyLoop: without the break, invalidCount is incremented once
\* for every failing rule of a key
KeyLoopCountsRules(keys, i, vals, fns, acc) ==
  IF i > Len(keys) THEN acc
  ELSE LET key == keys[i]
           safeFns == SafeFns(fns, key)
           failing == {j \in 1..Len(safeFns) :
                         Fn(safeFns[j], vals[key], vals) # ""}
           error == RuleLoop(safeFns, 1, vals[key], vals)
           next == [ invalid |-> acc.invalid \/ error # "",
                     invalidCount |-> acc.invalidCount + Cardinality(failing),
                     errors |-> (key :> error) @@ acc.errors ]
       IN KeyLoopCountsRules(keys, i + 1, vals, fns, next)

RECURSIVE KeyLoopLastInvalid(_, _, _, _, _)
\* mutant of KeyLoop: invalid is assigned for every key, so the last key
\* decides it
KeyLoopLastInvalid(keys, i, vals, fns, acc) ==
  IF i > Len(keys) THEN acc
  ELSE LET key == keys[i]
           error == RuleLoop(SafeFns(fns, key), 1, vals[key], vals)
           next == [ invalid |-> error # "",
                     invalidCount |-> IF error # "" THEN acc.invalidCount + 1
                                      ELSE acc.invalidCount,
                     errors |-> (key :> error) @@ acc.errors ]
       IN KeyLoopLastInvalid(keys, i + 1, vals, fns, next)

RECURSIVE KeyLoop(_, _, _, _, _)
\* outer loop of validate; acc = [invalid, invalidCount, errors]
KeyLoop(keys, i, vals, fns, acc) ==
  IF i > Len(keys) THEN acc
  ELSE LET key == keys[i]
           error == RuleLoop(SafeFns(fns, key), 1, vals[key], vals)
           next == [ invalid |-> acc.invalid \/ error # "",
                     invalidCount |-> IF error # "" THEN acc.invalidCount + 1
                                      ELSE acc.invalidCount,
                     errors |-> (key :> error) @@ acc.errors ]
       IN KeyLoop(keys, i + 1, vals, fns, next)

\* mutant of Progress: the share of the invalid fields
ProgressOfInvalid(validCount, length) ==
  (2 * 10000 * (length - validCount) + length) \div (2 * length)

\* +((validCount / keys.length) * 100).toFixed(2), in hundredths
Progress(validCount, length) ==
  (2 * 10000 * validCount + length) \div (2 * length)

validate(keys, vals, fns) ==
  LET acc == KeyLoop(keys, 1, vals, fns,
                     [invalid |-> FALSE, invalidCount |-> 0, errors |-> <<>>])
      validCount == Len(keys) - acc.invalidCount
  IN [ invalid |-> acc.invalid,
       errors |-> acc.errors,
       valid |-> ~acc.invalid,
       validCount |-> validCount,
       progress |-> Progress(validCount, Len(keys)),
       invalidCount |-> acc.invalidCount ]

createMetadata(touched, confirmed) ==
  [ touched |-> touched, untouched |-> ~touched,
    confirmed |-> confirmed, unconfirmed |-> ~confirmed ]

isDebugAvailable(h) == h \in LocalhostHrefs

\* ----------------------------------------------------------------- state
VARIABLES
  href,          \* window.location.href
  initValues,    \* constructor argument
  fns,           \* constructor argument
  inputs,        \* the values the model passes to set, per key
  keys,          \* useMemo(Object.keys(initValues))
  initResult,    \* useMemo(validate(keys, initValues, fns))
  initMetadata,  \* useMemo(createMetadata(false, false))
  values,        \* values.current
  result,        \* result.current
  metadata,      \* metadata.current
  counter,       \* the useState counter rerender() increments
  subs,          \* subscriptions on changed$, in subscription order
  stack,         \* the changed.next calls in progress, innermost last
  last,          \* the most recent step (history)
  atConstruction \* values/result/metadata right after construction (history)

vars == << href, initValues, fns, inputs, keys, initResult, initMetadata, values,
           result, metadata, counter, subs, stack, last, atConstruction >>

consts == << href, initValues, fns, inputs, keys, initResult, initMetadata,
             atConstruction >>

\* what no operation assigns or writes to
fixed == << href, fns, inputs, keys, initMetadata, atConstruction >>

NoValue == Str("")
\* history record of a step: the operation, its arguments, a flag (change:
\* set was called; reset: the form was touched, confirmed and changed), the
\* preventDefault calls it made, the subscription it delivered to, for
\* confirm whether the step before it was a confirm too, whether set has
\* run since construction or since the most recent reset, and how far the
\* calls so far follow set(email, "a@b.com"), set(age, 20), reset() on the
\* form {email: "", age: 0} (0..3; 4 when they do not)
Step(op, key, value, flag, pd, sub) ==
  [ op |-> op, key |-> key, value |-> value, flag |-> flag, pd |-> pd,
    sub |-> sub, again |-> op = "confirm" /\ last.op = "confirm",
    setSince |-> IF op = "reset" THEN FALSE
                 ELSE IF op \in {"set", "change"} /\ flag THEN TRUE
                 ELSE last.setSince,
    scen |-> IF op \in {"on", "deliver", "filtered", "rerender"}
                  \/ (op = "change" /\ ~flag)
             THEN last.scen
             ELSE IF op = "set" /\ last.scen = 0 /\ key = "email"
                       /\ value = Str("a@b.com") THEN 1
             ELSE IF op = "set" /\ last.scen = 1 /\ key = "age"
                       /\ value = Num(20) THEN 2
             ELSE IF op = "reset" /\ last.scen = 2 THEN 3
             ELSE 4 ]

Init ==
  /\ href \in Hrefs
  /\ \E c \in Configs :
       /\ initValues = c.initValues
       /\ fns = c.fns
       /\ inputs = c.inputs
       /\ keys = c.order
       /\ initResult = validate(c.order, c.initValues, c.fns)
  /\ initMetadata = createMetadata(FALSE, FALSE)
  /\ result = initResult
  /\ values = initValues
  /\ metadata = initMetadata
  /\ counter = 0
  /\ subs = <<>>
  /\ stack = <<>>
  /\ last = [ op |-> "useForm", key |-> "", value |-> NoValue,
              flag |-> FALSE, pd |-> 0, sub |-> 0, again |-> FALSE,
              setSince |-> FALSE,
              scen |-> IF keys = <<"email", "age">> THEN 0 ELSE 4 ]
  /\ atConstruction = [ values |-> values, result |-> result,
                        metadata |-> metadata ]

\* ------------------------------------------------------------ the stream
\* {key, value} as set hands it to changed.next
OnEvent(key, value) == [key |-> key, value |-> value]

\* mutant of FilterFn: the key of the subscription is not compared
FilterFnIgnoresKey(sub, event) == TRUE

\* the predicate of on(key, filterFn): the default compares the keys, the
\* custom predicate the model explores accepts every event
FilterFn(sub, event) ==
  IF sub.filter = "default" THEN event.key = sub.key ELSE TRUE

\* Subject.next iterates over a copy of the observers subscribed when it is
\* called
Observers == [s \in 1..Len(subs) |-> s]

\* a changed.next(event) in progress: the observers it iterates over, the
\* position of the next one, whether a handler is running, and (history)
\* the arguments of the set that made the call, what each observer got,
\* the subscriptions there were at the call, those that got the event, and
\* those that meanwhile got the event of a set called from a handler
Frame(key, value, event) ==
  [ key |-> key, value |-> value, event |-> event, obs |-> Observers,
    i |-> 1, handling |-> FALSE,
    recv |-> [p \in 1..Len(Observers) |-> <<>>],
    born |-> Len(subs), got |-> {}, later |-> {} ]

\* mutant of Targets: next iterates over the live list of observers
TargetsLive(f) == [s \in 1..Len(subs) |-> s]

\* the observers a changed.next in progress delivers to: the copy
Targets(f) == f.obs

Top == stack[Len(stack)]

\* code runs either from the host (nothing in progress) or inside the
\* handler of the subscriber that was delivered to last
CanCall == IF stack = <<>> THEN TRUE ELSE Top.handling

\* every call so far has re-rendered, is a set in progress or subscribed
Calls == counter + Len(stack) + Len(subs)

Budget == Calls < MaxCalls

\* ----------------------------------------------------------- operations
\* mutant of SetValues: the copy is made of initValues
SetValuesFromInit(vals, key, value) ==
  [n \in DOMAIN initValues \cup {key} |->
     IF n = key THEN value ELSE initValues[n]]

\* { ...values.current, [key]: value }
SetValues(vals, key, value) ==
  [n \in DOMAIN vals \cup {key} |-> IF n = key THEN value ELSE vals[n]]

\* mutant of RetainedValues: set writes values.current[key] in place, and
\* values.current is the initValues object
RetainedValuesInPlace(key, value) == SetValues(initValues, key, value)

\* the object initValues refers to, after set: the spread builds a new
\* object for values.current, the retained one is not written
RetainedValues(key, value) == initValues

\* the object initResult refers to, after validate: validate fills a new
\* errors object and returns a new result, the retained one is not written
RetainedResult == initResult

\* mutant of SetMetadata: touched is carried over instead of set
SetMetadataKeepsTouched(m) == createMetadata(m.touched, m.confirmed)

SetMetadata(m) == createMetadata(TRUE, m.confirmed)

\* mutant of SetBody: validate runs on the values before the change
SetBodyStale(key, value) ==
  /\ values' = SetValues(values, key, value)
  /\ result' = validate(keys, values, fns)
  /\ metadata' = SetMetadata(metadata)
  /\ stack' = Append(stack, Frame(key, value, OnEvent(key, value)))
  /\ initValues' = RetainedValues(key, value)
  /\ initResult' = RetainedResult
  /\ UNCHANGED << counter, subs >>

\* mutant of SetBody: no event when the value is the one already stored
SetBodySkipsSame(key, value) ==
  /\ values' = SetValues(values, key, value)
  /\ result' = validate(keys, values', fns)
  /\ metadata' = SetMetadata(metadata)
  /\ stack' = IF key \in DOMAIN values /\ values[key] = value THEN stack
              ELSE Append(stack, Frame(key, value, OnEvent(key, value)))
  /\ counter' = IF key \in DOMAIN values /\ values[key] = value
                THEN counter + 1 ELSE counter
  /\ initValues' = RetainedValues(key, value)
  /\ initResult' = RetainedResult
  /\ UNCHANGED subs

\* lines 81-88 of set: the three refs, then changed.next({key, value});
\* rerender() follows when the delivery is over (SetReturn)
SetBody(key, value) ==
  /\ values' = SetValues(values, key, value)
  /\ result' = validate(keys, values', fns)
  /\ metadata' = SetMetadata(metadata)
  /\ stack' = Append(stack, Frame(key, value, OnEvent(key, value)))
  /\ initValues' = RetainedValues(key, value)
  /\ initResult' = RetainedResult
  /\ UNCHANGED << counter, subs >>

set(key, value) ==
  /\ CanCall /\ Budget
  /\ SetBody(key, value)
  /\ last' = Step("set", key, value, TRUE, 0, 0)
  /\ UNCHANGED fixed

\* mutant of ChangeCallsSet: the typeof guard is missing
ChangeCallsSetNoTypeGuard(key, value) ==
  IF ~isDebugAvailable(href) THEN TRUE
  ELSE IF key = "" THEN FALSE
  ELSE IF key \notin Range(keys) THEN FALSE
  ELSE TRUE

\* the guards of change: TRUE when it goes on to call set
ChangeCallsSet(key, value) ==
  IF ~isDebugAvailable(href) THEN TRUE
  ELSE IF key = "" THEN FALSE
  ELSE IF key \notin Range(keys) THEN FALSE
  ELSE IF TypeOf(values[key]) # TypeOf(value) THEN FALSE
  ELSE TRUE

change(key, value) ==
  /\ CanCall
  /\ IF ChangeCallsSet(key, value)
     THEN /\ Budget
          /\ SetBody(key, value)
          /\ last' = Step("change", key, value, TRUE, 0, 0)
     ELSE /\ last' = Step("change", key, value, FALSE, 0, 0)
          /\ UNCHANGED << values, result, metadata, counter, subs, stack,
                          initValues, initResult >>
  /\ UNCHANGED fixed

\* mutant of ConfirmMetadata: confirmed is toggled
ConfirmMetadataToggles(m) == createMetadata(m.touched, ~m.confirmed)

\* mutant of ConfirmMetadata: touched is set as set does
ConfirmMetadataTouches(m) == createMetadata(TRUE, TRUE)

ConfirmMetadata(m) == createMetadata(m.touched, TRUE)

ConfirmBody ==
  /\ result' = validate(keys, values, fns)
  /\ metadata' = ConfirmMetadata(metadata)
  /\ counter' = counter + 1
  /\ initResult' = RetainedResult
  /\ UNCHANGED << values, subs, stack, initValues >>

confirm ==
  /\ CanCall /\ Budget
  /\ ConfirmBody
  /\ last' = Step("confirm", "", NoValue, FALSE, 0, 0)
  /\ UNCHANGED fixed

\* e.preventDefault(); confirm()
submit ==
  /\ CanCall /\ Budget
  /\ ConfirmBody
  /\ last' = Step("submit", "", NoValue, FALSE, 1, 0)
  /\ UNCHANGED fixed

\* mutant of ResetTarget: the metadata is not restored
ResetTargetKeepsMetadata ==
  [ result |-> initResult, metadata |-> metadata, values |-> initValues ]

\* mutant of ResetTarget: the values are not restored
ResetTargetKeepsValues ==
  [ result |-> initResult, metadata |-> initMetadata, values |-> values ]

ResetTarget ==
  [ result |-> initResult, metadata |-> initMetadata, values |-> initValues ]

reset ==
  /\ CanCall /\ Budget
  /\ result' = ResetTarget.result
  /\ metadata' = ResetTarget.metadata
  /\ values' = ResetTarget.values
  /\ counter' = counter + 1
  /\ last' = Step("reset", "", NoValue,
                  metadata.touched /\ metadata.confirmed
                    /\ values # initValues, 0, 0)
  /\ UNCHANGED << subs, stack >>
  /\ UNCHANGED consts

\* on(key, filterFn) and the subscribe on the observable it returns
on(key, filter) ==
  /\ CanCall /\ Budget
  /\ subs' = Append(subs, [key |-> key, filter |-> filter])
  /\ last' = Step("on", "", NoValue, FALSE, 0, 0)
  /\ UNCHANGED << values, result, metadata, counter, stack >>
  /\ UNCHANGED consts

\* one iteration of Subject.next: the next observer of the copy gets the
\* event if its filter accepts it, and its handler starts to run
Deliver ==
  /\ stack # <<>> /\ Top.i <= Len(Targets(Top))
  /\ LET s == Targets(Top)[Top.i]
         passes == FilterFn(subs[s], Top.event)
         top == [ Top EXCEPT
                    !.i = @ + 1,
                    !.handling = passes,
                    !.recv = IF passes /\ Top.i <= Len(@)
                             THEN [@ EXCEPT ![Top.i] = Append(@, Top.event)]
                             ELSE @,
                    !.got = IF passes THEN @ \cup {s} ELSE @ ]
     IN /\ stack' = [d \in 1..Len(stack) |->
                       IF d = Len(stack) THEN top
                       ELSE [ stack[d] EXCEPT
                                !.later = IF passes THEN @ \cup {s} ELSE @ ]]
        /\ last' = Step(IF passes THEN "deliver" ELSE "filtered",
                        Top.event.key, Top.event.value, FALSE, 0, s)
  /\ UNCHANGED << values, result, metadata, counter, subs >>
  /\ UNCHANGED consts

\* changed.next has returned: set calls rerender() and returns
SetReturn ==
  /\ stack # <<>> /\ Top.i > Len(Targets(Top))
  /\ stack' = SubSeq(stack, 1, Len(stack) - 1)
  /\ counter' = counter + 1
  /\ last' = Step("rerender", "", NoValue, FALSE, 0, 0)
  /\ UNCHANGED << values, result, metadata, subs >>
  /\ UNCHANGED consts

\* the subscriptions the model makes: the default filter on every key, a
\* custom filter once
OnInputs ==
  {<<k, "default">> : k \in Range(keys)} \cup {<<keys[1], "custom">>}

Next ==
  \/ \E key \in Range(keys) : \E value \in inputs[key] : set(key, value)
  \/ \E key \in Range(keys) \cup ForeignNames : \E value \in RawValues :
        change(key, value)
  \/ confirm
  \/ submit
  \/ reset
  \/ \E o \in OnInputs : on(o[1], o[2])
  \/ Deliver
  \/ SetReturn

Spec == Init /\ [][Next]_vars

TypeOK ==
  /\ Range(keys) \subseteq DOMAIN values
  /\ Calls <= MaxCalls

\* ----------------------------------------------------------------- claims
\* the last step was a set of a known key, called directly or from change
SetOfKnownKey ==
  /\ last.op \in {"set", "change"}
  /\ last.flag
  /\ last.key \in Range(keys)

\* C1: a reset, after any sequence of calls, leaves values, validation
\* result and metadata equal to what they were right after construction.
ResetRestoresConstruction ==
  last.op = "reset" =>
    /\ values = atConstruction.values
    /\ result = atConstruction.result
    /\ metadata = atConstruction.metadata

\* a reset of a form that was touched, confirmed and held other values
ResetOfChangedForm == last.op = "reset" /\ last.flag

\* C2: in every state the stored validation result is validate of the
\* current values, for every field.
ResultMatchesValues == result = validate(keys, values, fns)

\* set(email) made the unchanged field repeat valid: its rule reads email
CrossFieldRevalidated ==
  /\ last.op = "set" /\ last.key = "email"
  /\ "repeat" \in DOMAIN result.errors
  /\ values["repeat"] = Str("a@b.com")
  /\ result.errors["repeat"] = ""

\* C3: after a set of a known key, errors[key] is "" iff no rule of the
\* key's list returns a non-empty string on the new values.
SetErrorIffRuleFails ==
  SetOfKnownKey =>
    LET safeFns == SafeFns(fns, last.key)
    IN (result.errors[last.key] = "")
         <=> (\A j \in 1..Len(safeFns) :
                Fn(safeFns[j], values[last.key], values) = "")

\* a set whose value passes the first rule of the key and fails the second
SetFailsSecondRule ==
  /\ SetOfKnownKey
  /\ Len(SafeFns(fns, last.key)) = 2
  /\ Fn(fns[last.key][1], values[last.key], values) = ""
  /\ result.errors[last.key] # ""

\* C4: validCount + invalidCount is the number of keys, and invalidCount
\* is the number of keys with a non-empty error.
CountsMatchErrors ==
  /\ result.validCount + result.invalidCount = Len(keys)
  /\ result.invalidCount =
       Cardinality({k \in Range(keys) : result.errors[k] # ""})

\* after a change that called set, some keys valid and some invalid
ChangeWithMixedCounts ==
  /\ last.op = "change" /\ last.flag
  /\ result.validCount > 0 /\ result.invalidCount > 0

\* C5: a set delivers to a subscription with the default filter no event
\* when the keys differ and exactly one event, {key, value} of the call,
\* when they are equal.
DefaultFilterDelivery ==
  \A d \in 1..Len(stack) :
    LET f == stack[d]
    IN \A p \in 1..Len(f.obs) :
         (p < f.i /\ subs[f.obs[p]].filter = "default") =>
           IF subs[f.obs[p]].key = f.key
           THEN f.recv[p] = << [key |-> f.key, value |-> f.value] >>
           ELSE f.recv[p] = <<>>

\* a finished delivery with a subscription on the key of the set and one
\* on another key
DeliveredToOneOfTwo ==
  /\ stack # <<>>
  /\ Top.i > Len(Top.obs)
  /\ \E p, q \in 1..Len(Top.obs) :
       /\ subs[Top.obs[p]].filter = "default"
       /\ subs[Top.obs[q]].filter = "default"
       /\ subs[Top.obs[p]].key = Top.key
       /\ subs[Top.obs[q]].key # Top.key
       /\ Len(Top.recv[p]) = 1
       /\ Len(Top.recv[q]) = 0

\* the observers of a delivery whose handler got the event
Received(f) == Cardinality({p \in 1..Len(f.obs) : f.recv[p] # <<>>})

\* the state holds the value of the event and was validated and touched
ConsistentWith(key, value) ==
  /\ key \in DOMAIN values
  /\ values[key] = value
  /\ result = validate(keys, values, fns)
  /\ metadata.touched

\* C6 as claimed: whenever a subscriber receives the event of a set, the
\* values hold values[key] = value, the result is the one computed from
\* them and touched is true.
DeliveredToConsistentState ==
  last.op = "deliver" => ConsistentWith(last.key, last.value)

\* C6 as amended: the state is consistent with the event when set calls
\* changed.next and when the first subscriber of that call receives it;
\* at every delivery the result is validate of the current values.
EmittedAfterUpdate ==
  /\ (last.op \in {"set", "change"} /\ last.flag) =>
       ConsistentWith(last.key, last.value)
  /\ (last.op = "deliver" /\ Received(Top) = 1) =>
       ConsistentWith(last.key, last.value)
  /\ last.op = "deliver" => result = validate(keys, values, fns)

\* the event of a set called from a handler reaches its first subscriber
FirstDeliveryOfNestedSet ==
  /\ last.op = "deliver"
  /\ Len(stack) = 2
  /\ Received(Top) = 1

\* the notification names no field, names no key of the form, or carries
\* a value of another type than the stored one
BadChange(key, value) ==
  IF key = "" \/ key \notin Range(keys) THEN TRUE
  ELSE TypeOf(values[key]) # TypeOf(value)

\* C7: a change with an empty name, an unknown name or a value of another
\* type than the stored one is skipped: values, result and metadata stay
\* as they are and no event is emitted.
ChangeSkipsBadInput ==
  [][ (last'.op = "change" /\ BadChange(last'.key, last'.value)) =>
        UNCHANGED << values, result, metadata, stack >> ]_vars

\* C8: outside the debug posture change calls set(name, value) for every
\* notification; inside it, only when the name is non-empty, is a key and
\* the stored value has the type of the raw value.
ChangeGuardsByPosture ==
  [][ last'.op = "change" =>
        LET key == last'.key
            value == last'.value
        IN /\ last'.flag <=>
                (~isDebugAvailable(href) \/ ~BadChange(key, value))
           /\ last'.flag =>
                /\ values' = SetValues(values, key, value)
                /\ Len(stack') = Len(stack) + 1
                /\ stack'[Len(stack')].event = [key |-> key, value |-> value]
           /\ ~last'.flag =>
                UNCHANGED << values, result, metadata, stack, counter >>
    ]_vars

\* outside the debug posture a notification without a name reached set
UnguardedChange ==
  /\ last.op = "change" /\ last.flag
  /\ ~isDebugAvailable(href)
  /\ last.key = ""
  /\ "" \in DOMAIN values

\* C9: a confirm right after a confirm leaves the validation result and
\* the metadata as the first one left them.
ConfirmIdempotent ==
  [][ (last.op = "confirm" /\ last'.op = "confirm") =>
        (result' = result /\ metadata' = metadata) ]_vars

\* two confirms in succession on a touched form
ConfirmedTwice == last.op = "confirm" /\ last.again /\ metadata.touched

\* C10: confirm leaves the values unchanged, sets confirmed and keeps
\* touched; submit does the same after one preventDefault.
ConfirmFrame ==
  [][ last'.op \in {"confirm", "submit"} =>
        /\ values' = values
        /\ metadata'.confirmed /\ ~metadata'.unconfirmed
        /\ metadata'.touched = metadata.touched
        /\ metadata'.untouched = metadata.untouched
        /\ last'.pd = (IF last'.op = "submit" THEN 1 ELSE 0) ]_vars

\* a submit of a touched form, and one of an untouched form
SubmitOfTouchedForm ==
  /\ last.op = "submit"
  /\ metadata.touched /\ metadata.confirmed

\* C11: touched is true iff a set has run since construction or since the
\* most recent reset; confirm and submit leave touched as it is; untouched
\* is the negation of touched.
TouchedIffSetSinceReset ==
  /\ metadata.touched <=> last.setSince
  /\ metadata.untouched <=> ~metadata.touched

\* a reset of a form that was set and confirmed: touched is false again
UntouchedByReset ==
  /\ last.op = "reset" /\ last.flag
  /\ ~metadata.touched /\ metadata.untouched

\* C12: the retained reset snapshot is never modified: it stays the values
\* given at construction, validate of those values, and metadata with
\* touched and confirmed false.
RetainedSnapshotIntact ==
  /\ initValues = atConstruction.values
  /\ initResult = validate(keys, atConstruction.values, fns)
  /\ initResult = atConstruction.result
  /\ initMetadata = createMetadata(FALSE, FALSE)

\* a set while values.current still is the initValues object, and a reset
\* target that differs from the current state
SetOnRetainedObject ==
  /\ last.op = "set" /\ counter = 0
  /\ values # initValues
  /\ result # initResult

\* C13: invalid is true iff some key has a non-empty error, valid is its
\* negation, and errors has an entry for every key and for nothing else.
InvalidIffSomeError ==
  /\ result.invalid <=> (\E k \in Range(keys) : result.errors[k] # "")
  /\ result.valid <=> ~result.invalid
  /\ DOMAIN result.errors = Range(keys)

\* the first key invalid, the last key valid, and a foreign key in values
FirstInvalidLastValid ==
  /\ result.errors[keys[1]] # ""
  /\ result.errors[keys[Len(keys)]] = ""
  /\ "phone" \in DOMAIN values

\* C14: on {email: "", age: 0} with the rules 'must contain @' and 'must
\* be >= 18': first both errors and progress 0; after set(email,
\* "a@b.com") no email error, invalidCount 1, progress 50; after set(age,
\* 20) valid and progress 100; after reset() the email error and progress 0.
ScenarioTrace ==
  /\ last.scen = 0 =>
       /\ result.invalid
       /\ result.errors["email"] = "must contain @"
       /\ result.errors["age"] = "must be >= 18"
       /\ result.progress = 0
  /\ last.scen = 1 =>
       /\ result.errors["email"] = ""
       /\ result.invalidCount = 1
       /\ result.progress = 5000
  /\ last.scen = 2 =>
       /\ ~result.invalid
       /\ result.progress = 10000
  /\ last.scen = 3 =>
       /\ result.errors["email"] = "must contain @"
       /\ result.progress = 0

\* the reset at the end of the scenario has run
ScenarioDone == last.scen = 3 /\ last.op = "reset"

\* C15: every set, called directly or from an accepted change, emits
\* exactly one event on the notifier, also when the value is the one
\* already stored; confirm, submit, reset and a rejected change emit none.
\* So the events emitted are as many as the sets executed.
OneEventPerSet ==
  [][ IF last'.op \in {"set", "change"} /\ last'.flag
      THEN /\ Len(stack') = Len(stack) + 1
           /\ SubSeq(stack', 1, Len(stack)) = stack
           /\ stack'[Len(stack')].event =
                [key |-> last'.key, value |-> last'.value]
      ELSE Len(stack') <= Len(stack) ]_vars

\* the first call is a set of the value the key already has, and its
\* event is being delivered
SetOfSameValueEmits ==
  /\ last.op = "set" /\ counter = 0 /\ Len(stack) = 1
  /\ last.value = initValues[last.key]
  /\ Top.event = [key |-> last.key, value |-> last.value]

\* C16: for each key validate records the message of the first rule of the
\* key's list that returns a non-empty string and calls no rule after it;
\* a key without a rule list or without a failing rule gets "".
FirstFailingRuleRecorded ==
  \A k \in Range(keys) :
    LET safeFns == SafeFns(fns, k)
        failing == {j \in 1..Len(safeFns) :
                      Fn(safeFns[j], values[k], values) # ""}
        calls == RuleCalls(safeFns, 1, values[k], values)
    IN IF failing = {}
       THEN /\ result.errors[k] = ""
            /\ calls = [j \in 1..Len(safeFns) |-> j]
       ELSE LET first == CHOOSE j \in failing : \A h \in failing : j <= h
            IN /\ result.errors[k] = Fn(safeFns[first], values[k], values)
               /\ calls = [j \in 1..first |-> j]

\* after a set, two rules of email would fail, the first one's message is
\* recorded and the second is not called; nick has no rule list
SecondRuleNotCalled ==
  /\ last.op = "set"
  /\ "nick" \in Range(keys) /\ "nick" \notin DOMAIN fns
  /\ Len(fns["email"]) = 2
  /\ Fn(fns["email"][2], values["email"], values) # ""
  /\ result.errors["email"] = Fn(fns["email"][1], values["email"], values)
  /\ result.errors["email"] # ""
  /\ RuleCalls(fns["email"], 1, values["email"], values) = <<1>>
  /\ result.errors["nick"] = ""

\* C17: a set of a known key changes the value mapping at that key only;
\* the other keys' values, the list of keys and confirmed stay as they are.
SetChangesOnlyKey ==
  [][ (/\ last'.op \in {"set", "change"}
       /\ last'.flag
       /\ last'.key \in Range(keys)) =>
        /\ DOMAIN values' = DOMAIN values
        /\ \A n \in DOMAIN values \ {last'.key} : values'[n] = values[n]
        /\ values'[last'.key] = last'.value
        /\ keys' = keys
        /\ metadata'.confirmed = metadata.confirmed
        /\ metadata'.unconfirmed = metadata.unconfirmed ]_vars

\* a set on a confirmed form in which another key holds a changed value
SetBesideChangedKey ==
  /\ last.op = "set"
  /\ metadata.confirmed
  /\ \E n \in Range(keys) \ {last.key} : values[n] # initValues[n]

\* C18: a subscription receives only the events of sets made after it
\* subscribed: an event goes to no subscription made after its set called
\* changed.next.
OnlyEventsAfterSubscribing ==
  \A d \in 1..Len(stack) : stack[d].got \subseteq 1..stack[d].born

\* a subscription made by a handler during a delivery got the event of a
\* set called after it, and not the event under delivery, which its
\* filter accepts
SubscribedDuringDelivery ==
  /\ Len(stack) = 1
  /\ Top.i > Len(Top.obs)
  /\ \E s \in Top.later :
       /\ s > Top.born
       /\ FilterFn(subs[s], Top.event)
       /\ s \notin Top.got

\* C19: no subscriber receives the event of an earlier set after the
\* event of a later set, also when a handler calls set during a delivery.
InOrderDelivery ==
  last.op = "deliver" => last.sub \notin Top.later

\* C20: in every reachable state the domain of the value mapping is the
\* set of keys derived from the initial values: no operation adds a key.
ValuesDomainIsKeys == DOMAIN values = Range(keys)

====
